---- MODULE Spec2Model ----
(***************************************************************************)
(* Model of src/app.py: the Flask OCR upload service.                      *)
(*                                                                         *)
(* State: the session-scoped result store (session['results']), and for    *)
(* each serving thread the position of its request handler and the         *)
(* handler's locals (files, results, error, loop index).  Each thread also *)
(* keeps a log of the calls its handler made (allowed_file, the size       *)
(* measurement, extract_text_from_image, the tesseract engine) and the     *)
(* response it returned last.                                              *)
(*                                                                         *)
(* Strings whose structure the code inspects are sequences: a filename is  *)
(* a sequence of one-character strings, a text is a sequence of fragments  *)
(* (whitespace fragments " " and "\n", or non-blank fragments), so that    *)
(* rsplit, lower, strip and f-string concatenation are computed.  An image  *)
(* is its mode, its size and its pixels, row by row.                       *)
(***************************************************************************)
EXTENDS Integers, Sequences, FiniteSets, TLC

VARIABLES session, pc, req, resp, probe, picture

vars == <<session, pc, req, resp, probe, picture>>

(***************************************************************************)
(* Bounds of the model.                                                    *)
(***************************************************************************)
\* longest batch built from arbitrary files (longer ones are patterned)
MaxLen == 2
\* longest filename handed to allowed_file in SpecValidator
MaxNameLen == 5
\* largest width of the images handed to preprocess_image
MaxWidth == 3

(***************************************************************************)
(* Configuration, app.py lines 26-28.                                      *)
(***************************************************************************)
ALLOWED_EXTENSIONS ==
    { <<"p","n","g">>, <<"j","p","g">>, <<"j","p","e","g">>,
      <<"g","i","f">>, <<"b","m","p">>, <<"w","e","b","p">> }

MAX_FILE_SIZE == 10 * 1024 * 1024

MAX_FILES == 10

(***************************************************************************)
(* str.lower(), over the characters the model's filenames use.             *)
(***************************************************************************)
LowerChar(c) ==
    CASE c = "P" -> "p"
      [] c = "N" -> "n"
      [] c = "G" -> "g"
      [] c = "J" -> "j"
      [] c = "B" -> "b"
      [] OTHER   -> c

lower(s) == [k \in 1..Len(s) |-> LowerChar(s[k])]

\* '.' in filename
HasDot(s) == \E k \in 1..Len(s) : s[k] = "."

\* position of the last '.', the place where rsplit('.', 1) cuts, found by
\* scanning from the right end
RECURSIVE LastDotFrom(_, _)
LastDotFrom(s, k) ==
    IF k = 0 THEN 0
    ELSE IF s[k] = "." THEN k
    ELSE LastDotFrom(s, k - 1)

\* filename.rsplit('.', 1)[1]
rsplit1(s) == SubSeq(s, LastDotFrom(s, Len(s)) + 1, Len(s))

\* allowed_file, lines 30-35; its mutant compares the extension without lower()
allowed_file_nolower(filename) ==
    HasDot(filename) /\ rsplit1(filename) \in ALLOWED_EXTENSIONS

allowed_file(filename) ==
    HasDot(filename) /\ lower(rsplit1(filename)) \in ALLOWED_EXTENSIONS

\* file_size > MAX_FILE_SIZE, line 353; its mutant rejects the boundary too
exceeds_limit_inclusive(file_size) == file_size >= MAX_FILE_SIZE

exceeds_limit(file_size) == file_size > MAX_FILE_SIZE

(***************************************************************************)
(* Texts.  str.strip() removes leading and trailing whitespace.            *)
(***************************************************************************)
IsSpace(fragment) == fragment \in {" ", "\n"}

RECURSIVE lstrip(_)
lstrip(t) ==
    IF t = <<>> THEN <<>>
    ELSE IF IsSpace(Head(t)) THEN lstrip(Tail(t))
    ELSE t

RECURSIVE rstrip(_)
rstrip(t) ==
    IF t = <<>> THEN <<>>
    ELSE IF IsSpace(t[Len(t)]) THEN rstrip(SubSeq(t, 1, Len(t) - 1))
    ELSE t

strip(t) == rstrip(lstrip(t))

NoTextPlaceholder == <<"No text could be extracted from this image.">>

ErrorPrefix == "Error processing image: "

\* f"Error processing image: {str(e)}"
ErrorText(cause) == <<ErrorPrefix, cause>>

\* str(e) of what Image.open and pytesseract raise
DecodeCause == "cannot identify image file"

EngineCause == "tesseract failed"

(***************************************************************************)
(* Batch-level errors of index().  None is the record with msg "None".     *)
(***************************************************************************)
None == [msg |-> "None", filename |-> <<>>]

ErrSelect == [msg |-> "Please select at least one file to upload.", filename |-> <<>>]

ErrTooMany == [msg |-> "Maximum 10 files allowed per upload.", filename |-> <<>>]

ErrInvalidType(name) == [msg |-> "Invalid file type for {filename}.", filename |-> name]

ErrTooLarge(name) == [msg |-> "File {filename} exceeds 10MB limit.", filename |-> name]

ErrNoText == [msg |-> "No text could be extracted from any of the uploaded images.",
              filename |-> <<>>]

\* set by the outer except of index(), lines 383-385
ErrGeneric == [msg |-> "Failed to process the images. Please ensure they are valid image files.",
               filename |-> <<>>]

(***************************************************************************)
(* Uploaded files: declared filename, measured size, and what decoding and *)
(* the OCR engine do with the bytes.                                       *)
(***************************************************************************)
Img(raw) == [decodable |-> TRUE, engine_ok |-> TRUE, raw |-> raw]

Corrupt == [decodable |-> FALSE, engine_ok |-> TRUE, raw |-> <<>>]

EngineFails == [decodable |-> TRUE, engine_ok |-> FALSE, raw |-> <<>>]

File(name, size, image) == [filename |-> name, size |-> size, image |-> image]

NameEmpty == <<>>
NamePng == <<"a", ".", "p", "n", "g">>
NameJpgUpper == <<"B", ".", "J", "P", "G">>
NameGif == <<"c", ".", "g", "i", "f">>
NameBmp == <<"e", ".", "b", "m", "p">>
NamePdf == <<"d", ".", "p", "d", "f">>

Files ==
    { File(NameEmpty, 1, Img(<<"x">>)),
      File(NamePdf, 1, Img(<<"x">>)),
      File(NamePdf, MAX_FILE_SIZE + 1, Img(<<"x">>)),
      File(NamePng, MAX_FILE_SIZE, Img(<<" ", "hi", "\n">>)),
      File(NamePng, MAX_FILE_SIZE + 1, Img(<<"hi">>)),
      File(NameJpgUpper, 1, Img(<<" ", "\n">>)),
      File(NameGif, 2, Corrupt),
      File(NameBmp, 3, EngineFails) }

RECURSIVE SeqsUpTo(_, _)
SeqsUpTo(S, n) ==
    IF n = 0 THEN { <<>> }
    ELSE LET shorter == SeqsUpTo(S, n - 1)
         IN  shorter \cup { Append(s, x) : s \in { t \in shorter : Len(t) = n - 1 }, x \in S }

\* batches around the MAX_FILES ceiling: n - 1 copies of one file, then another
LongBatches ==
    { [k \in 1..n |-> IF k = n THEN g ELSE f] :
        n \in { MAX_FILES, MAX_FILES + 1 },
        f \in { File(NameEmpty, 1, Img(<<"x">>)),
                File(NamePdf, 1, Img(<<"x">>)),
                File(NamePng, MAX_FILE_SIZE, Img(<<" ", "hi", "\n">>)),
                File(NameGif, 2, Corrupt) },
        g \in { File(NamePng, MAX_FILE_SIZE, Img(<<" ", "hi", "\n">>)),
                File(NamePdf, 1, Img(<<"x">>)) } }

\* three-file batches: any file between two readable images
TripleBatches ==
    { <<File(NamePng, MAX_FILE_SIZE, Img(<<" ", "hi", "\n">>)), f,
        File(NamePng, MAX_FILE_SIZE, Img(<<" ", "hi", "\n">>))>> : f \in Files }

\* batches with a picture of the sentence index() uses as its placeholder
PlaceholderBatches ==
    { <<File(NamePng, 4, Img(<<"No text could be extracted from this image.", "\n">>))>>,
      <<File(NameJpgUpper, 1, Img(<<" ", "\n">>)),
        File(NamePng, 4, Img(<<"No text could be extracted from this image.", "\n">>))>> }

Batches ==
    SeqsUpTo(Files, MaxLen) \cup TripleBatches \cup LongBatches \cup PlaceholderBatches

\* values of the file_index form field
FileIndexes == (0 - (MAX_FILES + 2)) .. (MAX_FILES + 1)

\* characters of the filenames handed to allowed_file in SpecValidator
NameChars == { ".", "p", "n", "g", "P", "G" }

Names ==
    SeqsUpTo(NameChars, MaxNameLen)
        \cup { NameEmpty, NamePng, NameJpgUpper, NameGif, NameBmp, NamePdf }

(***************************************************************************)
(* extract_text_from_image, lines 49-73.  Image.open raises on bytes that  *)
(* do not decode, before the engine is reached; image_to_string may raise; *)
(* either exception is logged and re-raised.  The outcome records the      *)
(* calls made, whether an exception left the function, its str(e), and     *)
(* the returned text.                                                      *)
(***************************************************************************)
extract_text_from_image_retry(image_file) ==
    IF ~image_file.image.decodable
    THEN [raised |-> TRUE, cause |-> DecodeCause, text |-> <<>>,
          calls |-> <<"Image.open">>]
    ELSE IF ~image_file.image.engine_ok
    THEN [raised |-> TRUE, cause |-> EngineCause, text |-> <<>>,
          calls |-> <<"Image.open", "image_to_string", "image_to_string">>]
    ELSE [raised |-> FALSE, cause |-> "", text |-> strip(image_file.image.raw),
          calls |-> <<"Image.open", "image_to_string">>]

extract_text_from_image(image_file) ==
    IF ~image_file.image.decodable
    THEN [raised |-> TRUE, cause |-> DecodeCause, text |-> <<>>,
          calls |-> <<"Image.open">>]
    ELSE IF ~image_file.image.engine_ok
    THEN [raised |-> TRUE, cause |-> EngineCause, text |-> <<>>,
          calls |-> <<"Image.open", "image_to_string">>]
    ELSE [raised |-> FALSE, cause |-> "", text |-> strip(image_file.image.raw),
          calls |-> <<"Image.open", "image_to_string">>]

\* the entry index() appends for one file, lines 358-378; its mutants drop
\* the cause from the text of a failed file, and report the stream position
\* after the rewind (0) instead of the measured size
ResultEntry_rewound(file, file_size, outcome) ==
    [filename |-> file.filename,
     text |-> IF outcome.raised THEN ErrorText(outcome.cause)
              ELSE IF outcome.text # <<>> THEN outcome.text
              ELSE NoTextPlaceholder,
     size |-> 0]

ResultEntry_nocause(file, file_size, outcome) ==
    [filename |-> file.filename,
     text |-> IF outcome.raised THEN <<ErrorPrefix>>
              ELSE IF outcome.text # <<>> THEN outcome.text
              ELSE NoTextPlaceholder,
     size |-> file_size]

ResultEntry(file, file_size, outcome) ==
    [filename |-> file.filename,
     text |-> IF outcome.raised THEN ErrorText(outcome.cause)
              ELSE IF outcome.text # <<>> THEN outcome.text
              ELSE NoTextPlaceholder,
     size |-> file_size]

\* not files or all(file.filename == '' for file in files), line 333; its
\* mutant tests "not files" only
NothingSelected_no_files(files) == files = <<>>

NothingSelected(files) ==
    files = <<>> \/ \A k \in 1..Len(files) : files[k].filename = <<>>

\* len(files) > MAX_FILES, line 335; its mutant rejects MAX_FILES files too
TooMany_inclusive(files) == Len(files) >= MAX_FILES

TooMany(files) == Len(files) > MAX_FILES

Event(op, k) == [op |-> op, k |-> k]

\* the calls of one extract_text_from_image(files[k]), as log events
ExtractEvents(k, outcome) ==
    <<Event("extract_text_from_image", k)>>
        \o [n \in 1..Len(outcome.calls) |-> Event(outcome.calls[n], k)]

(***************************************************************************)
(* One iteration of "for file in files", lines 340-378, on the handler's   *)
(* locals r.  brk is set when the iteration leaves the loop by break.      *)
(***************************************************************************)
\* its mutant measures and checks the size before the extension
LoopBody_size_first(r) ==
    LET file == r.files[r.i]
    IN  IF file.filename = <<>>
        THEN [r EXCEPT !.i = @ + 1]
        ELSE LET file_size == file.size
             IN  IF exceeds_limit(file_size)
                 THEN [r EXCEPT !.error = ErrTooLarge(file.filename),
                                !.log = Append(@, Event("tell", r.i)),
                                !.brk = TRUE]
                 ELSE IF ~allowed_file(file.filename)
                 THEN [r EXCEPT !.error = ErrInvalidType(file.filename),
                                !.log = @ \o <<Event("tell", r.i),
                                               Event("allowed_file", r.i)>>,
                                !.brk = TRUE]
                 ELSE LET outcome == extract_text_from_image(file)
                      IN  [r EXCEPT !.results =
                                        Append(@, ResultEntry(file, file_size, outcome)),
                                    !.log = @ \o <<Event("tell", r.i),
                                                   Event("allowed_file", r.i)>>
                                              \o ExtractEvents(r.i, outcome),
                                    !.i = @ + 1]

LoopBody(r) ==
    LET file == r.files[r.i]
    IN  IF file.filename = <<>>
        THEN [r EXCEPT !.i = @ + 1]
        ELSE IF ~allowed_file(file.filename)
        THEN [r EXCEPT !.error = ErrInvalidType(file.filename),
                       !.log = Append(@, Event("allowed_file", r.i)),
                       !.brk = TRUE]
        ELSE LET file_size == file.size
             IN  IF exceeds_limit(file_size)
                 THEN [r EXCEPT !.error = ErrTooLarge(file.filename),
                                !.log = @ \o <<Event("allowed_file", r.i),
                                               Event("tell", r.i)>>,
                                !.brk = TRUE]
                 ELSE LET outcome == extract_text_from_image(file)
                      IN  [r EXCEPT !.results =
                                        Append(@, ResultEntry(file, file_size, outcome)),
                                    !.log = @ \o <<Event("allowed_file", r.i),
                                                   Event("tell", r.i)>>
                                              \o ExtractEvents(r.i, outcome),
                                    !.i = @ + 1]

(***************************************************************************)
(* preprocess_image, lines 37-47, on images given pixel by pixel.  An      *)
(* image is [mode, w, h, px]: px[y][x] is an <<r, g, b>> triple in mode    *)
(* "RGB" and a level 0..255 in modes "L" and "1".                          *)
(***************************************************************************)
Black == <<0, 0, 0>>

White == <<255, 255, 255>>

\* ImageOps.grayscale: convert("L"), the ITU-R 601-2 luma of an RGB pixel
\* in 16-bit fixed point
Luma(rgb) == (rgb[1] * 19595 + rgb[2] * 38470 + rgb[3] * 7471 + 32768) \div 65536

grayscale(img) ==
    [mode |-> "L", w |-> img.w, h |-> img.h,
     px |-> [y \in 1..img.h |-> [x \in 1..img.w |->
                IF img.mode = "RGB" THEN Luma(img.px[y][x]) ELSE img.px[y][x]]]]

Clamp(n, lo, hi) == IF n < lo THEN lo ELSE IF n > hi THEN hi ELSE n

\* the 3 x 3 window around (x, y); the filter first expands the image by
\* one pixel on each side, repeating the edge pixels
Window(img, x, y) ==
    [n \in 1..9 |->
        img.px[Clamp(y + ((n - 1) \div 3) - 1, 1, img.h)]
              [Clamp(x + ((n - 1) % 3) - 1, 1, img.w)]]

\* the element of rank r (0-based) of the sorted window
Rank(window, r) ==
    CHOOSE v \in { window[n] : n \in 1..Len(window) } :
        /\ Cardinality({ n \in 1..Len(window) : window[n] < v }) <= r
        /\ Cardinality({ n \in 1..Len(window) : window[n] <= v }) > r

\* img.filter(ImageFilter.MedianFilter()): size 3, rank 3 * 3 // 2
MedianFilter(img) ==
    [img EXCEPT !.px = [y \in 1..img.h |-> [x \in 1..img.w |->
                           Rank(Window(img, x, y), 4)]]]

\* img.point(lambda x: 0 if x < 140 else 255, '1'); its mutant swaps the
\* two levels
point_threshold_inverted(img) ==
    [mode |-> "1", w |-> img.w, h |-> img.h,
     px |-> [y \in 1..img.h |-> [x \in 1..img.w |->
                IF img.px[y][x] < 140 THEN 255 ELSE 0]]]

point_threshold(img) ==
    [mode |-> "1", w |-> img.w, h |-> img.h,
     px |-> [y \in 1..img.h |-> [x \in 1..img.w |->
                IF img.px[y][x] < 140 THEN 0 ELSE 255]]]

preprocess_image(img) == point_threshold(MedianFilter(grayscale(img)))

\* heights of the images handed to preprocess_image
Heights == 1..3

\* pure black/white RGB images, up to MaxWidth pixels wide
BlackWhiteImages ==
    UNION { { [mode |-> "RGB", w |-> w, h |-> h, px |-> px] :
                px \in [1..h -> [1..w -> { Black, White }]] } :
            w \in 1..MaxWidth, h \in Heights }

NoImage == [mode |-> "none", w |-> 0, h |-> 0, px |-> <<>>]

\* an image, how often it went through the pipeline, and what came out
Picture(img) == [input |-> img, passes |-> 0, first |-> NoImage, second |-> NoImage]

NoPicture == Picture(NoImage)

(***************************************************************************)
(* The session dict: session.get('results', []) is [] without the key.     *)
(***************************************************************************)
EmptySession == [has_results |-> FALSE, results |-> <<>>]

session_get_results(s) == IF session[s].has_results THEN session[s].results ELSE <<>>

NoRequest ==
    [route |-> "none", sid |-> "none", files |-> <<>>, i |-> 0, results |-> <<>>,
     error |-> None, log |-> <<>>, brk |-> FALSE, file_index |-> 0,
     before |-> EmptySession]

NoResponse == [status |-> 0, results |-> <<>>, error |-> None, body |-> <<>>]

NewRequest(route, s) == [NoRequest EXCEPT !.route = route, !.sid = s, !.before = session[s]]

\* a filename put to allowed_file, and the answer once it was called
Probe(filename) == [filename |-> filename, checked |-> FALSE, accepted |-> FALSE]

NoProbe == Probe(<<>>)

Init ==
    /\ session = [s \in {"s1"} |-> EmptySession]
    /\ pc = [t \in {1} |-> "idle"]
    /\ req = [t \in {1} |-> NoRequest]
    /\ resp = [t \in {1} |-> NoResponse]
    /\ probe = NoProbe
    /\ picture = NoPicture

(***************************************************************************)
(* GET /, lines 325-393 with request.method = 'GET': nothing is stored.    *)
(***************************************************************************)
index_GET(t, s) ==
    /\ pc[t] = "idle"
    /\ req' = [req EXCEPT ![t] = NewRequest("GET /", s)]
    /\ resp' = [resp EXCEPT ![t] = [NoResponse EXCEPT !.status = 200]]
    /\ pc' = [pc EXCEPT ![t] = "done"]
    /\ UNCHANGED <<session, probe, picture>>

(***************************************************************************)
(* POST /, lines 325-340: the submission checks.                           *)
(***************************************************************************)
index_POST(t, s, files) ==
    /\ pc[t] = "idle"
    /\ IF NothingSelected(files)
       THEN /\ req' = [req EXCEPT ![t] =
                          [NewRequest("POST /", s) EXCEPT !.files = files,
                                                          !.error = ErrSelect]]
            /\ pc' = [pc EXCEPT ![t] = "store"]
       ELSE IF TooMany(files)
       THEN /\ req' = [req EXCEPT ![t] =
                          [NewRequest("POST /", s) EXCEPT !.files = files,
                                                          !.error = ErrTooMany]]
            /\ pc' = [pc EXCEPT ![t] = "store"]
       ELSE /\ req' = [req EXCEPT ![t] =
                          [NewRequest("POST /", s) EXCEPT !.files = files, !.i = 1]]
            /\ pc' = [pc EXCEPT ![t] = "loop"]
    /\ UNCHANGED <<session, resp, probe, picture>>

\* POST /, lines 340-378: the next file of the loop
index_file(t) ==
    /\ pc[t] = "loop"
    /\ req[t].i <= Len(req[t].files)
    /\ req' = [req EXCEPT ![t] = LoopBody(req[t])]
    /\ pc' = [pc EXCEPT ![t] = IF req'[t].brk THEN "after_loop" ELSE "loop"]
    /\ UNCHANGED <<session, resp, probe, picture>>

\* POST /, lines 380-381: after the loop ended or was left by break.  No
\* exception escapes the loop body (the inner except catches everything
\* extract_text_from_image raises), so the outer except of lines 383-385
\* is not entered.
index_after_loop(t) ==
    /\ \/ pc[t] = "after_loop"
       \/ pc[t] = "loop" /\ req[t].i > Len(req[t].files)
    /\ req' = [req EXCEPT ![t].error =
                  IF @ = None /\ req[t].results = <<>> THEN ErrNoText ELSE @]
    /\ pc' = [pc EXCEPT ![t] = "store"]
    /\ UNCHANGED <<session, resp, probe, picture>>

\* POST /, lines 387-393: store the results in the session and render; its
\* mutants keep the results in one place shared by all sessions, and store
\* the result list without the "if results" test
index_respond_shared(t) ==
    /\ pc[t] = "store"
    /\ session' = IF req[t].results # <<>>
                  THEN [s \in DOMAIN session |->
                           [has_results |-> TRUE, results |-> req[t].results]]
                  ELSE session
    /\ resp' = [resp EXCEPT ![t] =
                   [status |-> 200, results |-> req[t].results,
                    error |-> req[t].error, body |-> <<>>]]
    /\ pc' = [pc EXCEPT ![t] = "done"]
    /\ UNCHANGED <<req, probe, picture>>

index_respond_always(t) ==
    /\ pc[t] = "store"
    /\ session' = [session EXCEPT ![req[t].sid] =
                       [has_results |-> req[t].results # <<>>, results |-> req[t].results]]
    /\ resp' = [resp EXCEPT ![t] =
                   [status |-> 200, results |-> req[t].results,
                    error |-> req[t].error, body |-> <<>>]]
    /\ pc' = [pc EXCEPT ![t] = "done"]
    /\ UNCHANGED <<req, probe, picture>>

index_respond(t) ==
    /\ pc[t] = "store"
    /\ session' = IF req[t].results # <<>>
                  THEN [session EXCEPT ![req[t].sid] =
                           [has_results |-> TRUE, results |-> req[t].results]]
                  ELSE session
    /\ resp' = [resp EXCEPT ![t] =
                   [status |-> 200, results |-> req[t].results,
                    error |-> req[t].error, body |-> <<>>]]
    /\ pc' = [pc EXCEPT ![t] = "done"]
    /\ UNCHANGED <<req, probe, picture>>

(***************************************************************************)
(* POST /download-single, lines 395-411.  results[file_index] is Python    *)
(* indexing: a negative index counts from the end, and an index below      *)
(* -len(results) raises IndexError, which Flask answers with 500.          *)
(***************************************************************************)
NotFound == [status |-> 404, results |-> <<>>, error |-> None, body |-> <<"No results found">>]

InternalError == [status |-> 500, results |-> <<>>, error |-> None, body |-> <<>>]

download_single_response(results, file_index) ==
    IF results = <<>> \/ file_index >= Len(results)
    THEN NotFound
    ELSE IF file_index >= 0
    THEN [status |-> 200, results |-> <<>>, error |-> None,
          body |-> results[file_index + 1].text]
    ELSE IF file_index >= 0 - Len(results)
    THEN [status |-> 200, results |-> <<>>, error |-> None,
          body |-> results[Len(results) + file_index + 1].text]
    ELSE InternalError

download_single(t, s, file_index) ==
    /\ pc[t] = "idle"
    /\ req' = [req EXCEPT ![t] =
                  [NewRequest("POST /download-single", s) EXCEPT !.file_index = file_index]]
    /\ resp' = [resp EXCEPT ![t] =
                   download_single_response(session_get_results(s), file_index)]
    /\ pc' = [pc EXCEPT ![t] = "done"]
    /\ UNCHANGED <<session, probe, picture>>

(***************************************************************************)
(* POST /download-all, lines 413-438.  combined_text is one string, built  *)
(* by += in the loop over enumerate(results, 1).                           *)
(***************************************************************************)
\* the characters of a filename or the fragments of a text, as one string
RECURSIVE Join(_)
Join(parts) == IF parts = <<>> THEN "" ELSE Head(parts) \o Join(Tail(parts))

\* len(result['text'])
RECURSIVE len(_)
len(text) == IF text = <<>> THEN 0 ELSE Len(Head(text)) + len(Tail(text))

\* "=" * 50
RECURSIVE Times(_, _)
Times(str, n) == IF n = 0 THEN "" ELSE str \o Times(str, n - 1)

\* the text one iteration appends for the i-th result, lines 424-429; its
\* mutant numbers the files as enumerate(results) does, from 0
FileBlock_zero_based(i, result) ==
    ("=== File " \o ToString(i - 1) \o ": " \o Join(result.filename) \o " ===\n")
    \o ("Characters: " \o ToString(len(result.text)) \o "\n")
    \o ("Size: " \o ToString(result.size) \o " bytes\n")
    \o (Times("=", 50) \o "\n\n")
    \o Join(result.text)
    \o ("\n\n" \o Times("=", 50) \o "\n\n")

FileBlock(i, result) ==
    ("=== File " \o ToString(i) \o ": " \o Join(result.filename) \o " ===\n")
    \o ("Characters: " \o ToString(len(result.text)) \o "\n")
    \o ("Size: " \o ToString(result.size) \o " bytes\n")
    \o (Times("=", 50) \o "\n\n")
    \o Join(result.text)
    \o ("\n\n" \o Times("=", 50) \o "\n\n")

\* the loop of lines 423-429 from its i-th iteration on
RECURSIVE CombineFrom(_, _, _)
CombineFrom(results, i, combined_text) ==
    IF i > Len(results) THEN combined_text
    ELSE CombineFrom(results, i + 1, combined_text \o FileBlock(i, results[i]))

download_all_response(results) ==
    IF results = <<>>
    THEN NotFound
    ELSE [status |-> 200, results |-> <<>>, error |-> None,
          body |-> <<CombineFrom(results, 1, "")>>]

download_all(t, s) ==
    /\ pc[t] = "idle"
    /\ req' = [req EXCEPT ![t] = NewRequest("POST /download-all", s)]
    /\ resp' = [resp EXCEPT ![t] = download_all_response(session_get_results(s))]
    /\ pc' = [pc EXCEPT ![t] = "done"]
    /\ UNCHANGED <<session, probe, picture>>

(***************************************************************************)
(* A view function has returned: the response is sent, the handler's       *)
(* locals are gone and the thread is free for the next request.            *)
(***************************************************************************)
handler_return(t) ==
    /\ pc[t] = "done"
    /\ req' = [req EXCEPT ![t] = NoRequest]
    /\ resp' = [resp EXCEPT ![t] = NoResponse]
    /\ pc' = [pc EXCEPT ![t] = "idle"]
    /\ UNCHANGED <<session, probe, picture>>

Next ==
    \/ \E t \in DOMAIN pc, s \in DOMAIN session : index_GET(t, s)
    \/ \E t \in DOMAIN pc, s \in DOMAIN session, files \in Batches : index_POST(t, s, files)
    \/ \E t \in DOMAIN pc : index_file(t)
    \/ \E t \in DOMAIN pc : index_after_loop(t)
    \/ \E t \in DOMAIN pc : index_respond(t)
    \/ \E t \in DOMAIN pc, s \in DOMAIN session, file_index \in FileIndexes :
           download_single(t, s, file_index)
    \/ \E t \in DOMAIN pc, s \in DOMAIN session : download_all(t, s)
    \/ \E t \in DOMAIN pc : handler_return(t)

Spec == Init /\ [][Next]_vars

(***************************************************************************)
(* allowed_file on its own: the validator applied to arbitrary filenames.  *)
(***************************************************************************)
check_filename ==
    /\ ~probe.checked
    /\ probe' = [probe EXCEPT !.checked = TRUE, !.accepted = allowed_file(probe.filename)]
    /\ UNCHANGED <<session, pc, req, resp, picture>>

InitValidator ==
    /\ session = [s \in {"s1"} |-> EmptySession]
    /\ pc = [t \in {1} |-> "idle"]
    /\ req = [t \in {1} |-> NoRequest]
    /\ resp = [t \in {1} |-> NoResponse]
    /\ probe \in { Probe(filename) : filename \in Names }
    /\ picture = NoPicture

NextValidator == check_filename

SpecValidator == InitValidator /\ [][NextValidator]_vars

(***************************************************************************)
(* preprocess_image on its own: an image goes through the pipeline, and    *)
(* what came out goes through it again.                                    *)
(***************************************************************************)
preprocess_first ==
    /\ picture.passes = 0
    /\ picture' = [picture EXCEPT !.passes = 1, !.first = preprocess_image(picture.input)]
    /\ UNCHANGED <<session, pc, req, resp, probe>>

preprocess_second ==
    /\ picture.passes = 1
    /\ picture' = [picture EXCEPT !.passes = 2, !.second = preprocess_image(picture.first)]
    /\ UNCHANGED <<session, pc, req, resp, probe>>

InitPreprocess ==
    /\ session = [s \in {"s1"} |-> EmptySession]
    /\ pc = [t \in {1} |-> "idle"]
    /\ req = [t \in {1} |-> NoRequest]
    /\ resp = [t \in {1} |-> NoResponse]
    /\ probe = NoProbe
    /\ picture \in { Picture(img) : img \in BlackWhiteImages }

NextPreprocess == preprocess_first \/ preprocess_second

SpecPreprocess == InitPreprocess /\ [][NextPreprocess]_vars

(***************************************************************************)
(* Two clients and two serving threads: app.run() serves each request in   *)
(* a thread of its own, so handlers of one or of both sessions interleave  *)
(* step by step.  The handler's locals belong to its thread; session[s] is *)
(* what the session of client s holds.                                     *)
(***************************************************************************)
ConcurrentBatches ==
    { <<File(NamePng, MAX_FILE_SIZE, Img(<<" ", "hi", "\n">>))>>,
      <<File(NameJpgUpper, 1, Img(<<" ", "\n">>))>>,
      <<File(NamePng, MAX_FILE_SIZE, Img(<<" ", "hi", "\n">>)),
        File(NameJpgUpper, 1, Img(<<" ", "\n">>))>>,
      <<File(NameJpgUpper, 1, Img(<<" ", "\n">>)),
        File(NameBmp, 3, EngineFails)>>,
      <<File(NamePng, MAX_FILE_SIZE, Img(<<" ", "hi", "\n">>)),
        File(NamePdf, 1, Img(<<"x">>))>>,
      <<File(NamePdf, 1, Img(<<"x">>))>> }

ConcurrentFileIndexes == { -1, 0, 1 }

InitConcurrent ==
    /\ session = [s \in {"s1", "s2"} |-> EmptySession]
    /\ pc = [t \in {1, 2} |-> "idle"]
    /\ req = [t \in {1, 2} |-> NoRequest]
    /\ resp = [t \in {1, 2} |-> NoResponse]
    /\ probe = NoProbe
    /\ picture = NoPicture

NextConcurrent ==
    \/ \E t \in DOMAIN pc, s \in DOMAIN session : index_GET(t, s)
    \/ \E t \in DOMAIN pc, s \in DOMAIN session, files \in ConcurrentBatches :
           index_POST(t, s, files)
    \/ \E t \in DOMAIN pc : index_file(t)
    \/ \E t \in DOMAIN pc : index_after_loop(t)
    \/ \E t \in DOMAIN pc : index_respond(t)
    \/ \E t \in DOMAIN pc, s \in DOMAIN session, file_index \in ConcurrentFileIndexes :
           download_single(t, s, file_index)
    \/ \E t \in DOMAIN pc, s \in DOMAIN session : download_all(t, s)
    \/ \E t \in DOMAIN pc : handler_return(t)

SpecConcurrent == InitConcurrent /\ [][NextConcurrent]_vars

TypeOK ==
    /\ \A t \in DOMAIN pc : pc[t] \in { "idle", "loop", "after_loop", "store", "done" }
    /\ \A s \in DOMAIN session : session[s].has_results = (session[s].results # <<>>)

(***************************************************************************)
(* Vocabulary of the properties, written from their statements.            *)
(***************************************************************************)
Threads == DOMAIN pc

Finished(t, route) == pc[t] = "done" /\ req[t].route = route

\* the allow-list and the letters that differ only in case
AllowList ==
    { <<"p","n","g">>, <<"j","p","g">>, <<"j","p","e","g">>,
      <<"g","i","f">>, <<"b","m","p">>, <<"w","e","b","p">> }

CasePairs == { <<"P","p">>, <<"N","n">>, <<"G","g">>, <<"J","j">>, <<"B","b">> }

SameLetter(c, d) == c = d \/ <<c, d>> \in CasePairs

\* the name has a '.', and the part after its last '.' is, up to letter
\* case, a member of the allow-list
NameIsAllowed(name) ==
    \E k \in 1..Len(name) :
        /\ name[k] = "."
        /\ \A m \in (k + 1)..Len(name) : name[m] # "."
        /\ \E ext \in AllowList :
              /\ Len(ext) = Len(name) - k
              /\ \A j \in 1..Len(ext) : SameLetter(name[k + j], ext[j])

NamedFile(f) == f.filename # <<>>

FailsValidation(f) ==
    NamedFile(f) /\ (~NameIsAllowed(f.filename) \/ f.size > 10485760)

\* some file is named and at most 10 files are submitted
PassesSubmissionChecks(files) ==
    /\ \E k \in 1..Len(files) : NamedFile(files[k])
    /\ Len(files) <= 10

\* position of the first file failing validation, 0 when there is none
FirstFailing(files) ==
    IF \E k \in 1..Len(files) : FailsValidation(files[k])
    THEN CHOOSE k \in 1..Len(files) :
            /\ FailsValidation(files[k])
            /\ \A m \in 1..(k - 1) : ~FailsValidation(files[m])
    ELSE 0

\* the named files before the first failing one (all named files if none fails)
Preceding(files) ==
    { k \in 1..Len(files) :
        NamedFile(files[k]) /\ (FirstFailing(files) = 0 \/ k < FirstFailing(files)) }

Calls(log, op, k) == Cardinality({ n \in 1..Len(log) : log[n] = [op |-> op, k |-> k] })

AllBlank(raw) == \A n \in 1..Len(raw) : raw[n] \in { " ", "\n" }

\* text is raw without its leading and trailing whitespace
IsTrimOf(text, raw) ==
    \E a \in 1..Len(raw), b \in 1..Len(raw) :
        /\ a <= b
        /\ text = SubSeq(raw, a, b)
        /\ raw[a] \notin { " ", "\n" }
        /\ raw[b] \notin { " ", "\n" }
        /\ \A n \in 1..Len(raw) : (n < a \/ n > b) => raw[n] \in { " ", "\n" }

\* the text of the entry of a file that reached recognition
OwnOutcome(f, text) ==
    IF ~f.image.decodable
    THEN text = <<"Error processing image: ", "cannot identify image file">>
    ELSE IF ~f.image.engine_ok
    THEN text = <<"Error processing image: ", "tesseract failed">>
    ELSE IF AllBlank(f.image.raw)
    THEN text = <<"No text could be extracted from this image.">>
    ELSE IsTrimOf(text, f.image.raw)

\* C1: when some file of a POST / batch fails the per-file validation, the
\* result list returned is empty (entries of earlier files are discarded)
\* and the batch-level error names the offending file.
C1_ValidationFailureDiscardsResults ==
    \A t \in Threads :
        ( /\ Finished(t, "POST /")
          /\ PassesSubmissionChecks(req[t].files)
          /\ FirstFailing(req[t].files) # 0 )
        => /\ resp[t].results = <<>>
           /\ resp[t].error.msg \in { "Invalid file type for {filename}.",
                                      "File {filename} exceeds 10MB limit." }
           /\ resp[t].error.filename
                  = req[t].files[FirstFailing(req[t].files)].filename

\* C2: a recognition failure on one file does not abort the batch: in a
\* POST / that passes the submission checks and in which no file fails
\* validation, the result list has exactly one entry per named file, in
\* submission order; the entry of a file whose recognition failed has the
\* text "Error processing image: <cause>", every other entry carries its own
\* file's outcome, and the response status is 200.
C2_RecognitionFailureIsNotFatal ==
    \A t \in Threads :
        ( /\ Finished(t, "POST /")
          /\ PassesSubmissionChecks(req[t].files)
          /\ FirstFailing(req[t].files) = 0 )
        => LET named == SelectSeq(req[t].files, NamedFile)
               out == resp[t].results
           IN  /\ resp[t].status = 200
               /\ Len(out) = Len(named)
               /\ \A k \in 1..Len(named) :
                     /\ out[k].filename = named[k].filename
                     /\ OwnOutcome(named[k], out[k].text)

C2_Witness ==
    \E t \in Threads :
        /\ Finished(t, "POST /")
        /\ Len(req[t].files) = 3
        /\ ~req[t].files[2].image.engine_ok
        /\ Len(resp[t].results) = 3
        /\ resp[t].results[2].text = <<"Error processing image: ", "tesseract failed">>
        /\ resp[t].results[3].text = <<"hi">>
        /\ resp[t].error = None

\* C3: a request that ends with a batch-level error leaves the session's
\* stored batch unchanged; the stored batch is replaced only by a POST /
\* that ends without a batch-level error.
C3_ErrorLeavesStoreUnchanged ==
    \A t \in Threads :
        (pc[t] = "done" /\ session[req[t].sid] # req[t].before)
        => (req[t].route = "POST /" /\ resp[t].error = None)

\* C4: a POST / batch in which every image yields empty trimmed OCR text
\* ends with a batch-level error and stores no batch in the session.
C4_AllBlankBatchIsAnError ==
    \A t \in Threads :
        ( /\ Finished(t, "POST /")
          /\ PassesSubmissionChecks(req[t].files)
          /\ \A k \in 1..Len(req[t].files) :
                LET f == req[t].files[k]
                IN  /\ NamedFile(f) /\ ~FailsValidation(f)
                    /\ f.image.decodable /\ f.image.engine_ok
                    /\ AllBlank(f.image.raw) )
        => /\ resp[t].error # None
           /\ session[req[t].sid] = req[t].before

\* C5: POST /download-single returns 404 when the session has no stored
\* batch or file_index is outside 0..n-1 (negative indexes included), and
\* otherwise the text of exactly the entry at position file_index.
C5_DownloadSingleRange ==
    \A t \in Threads :
        Finished(t, "POST /download-single")
        => LET stored == req[t].before
               n == Len(stored.results)
               idx == req[t].file_index
           IN  IF ~stored.has_results \/ idx < 0 \/ idx > n - 1
               THEN resp[t].status = 404
               ELSE /\ resp[t].status = 200
                    /\ resp[t].body = stored.results[idx + 1].text

\* C6: a POST / of more than 10 files is rejected as a whole before any
\* per-file work: no file is validated, measured or sent to OCR, the result
\* list is empty and the session store is unchanged.  A POST / of exactly
\* 10 files (some of them named) passes the count check and its files are
\* attempted: each named file is taken up in turn, up to the first one that
\* fails validation, so all of them reach OCR when none fails validation.
C6_CountCeiling ==
    \A t \in Threads :
        req[t].route = "POST /"
        => LET files == req[t].files
               log == req[t].log
           IN  /\ Len(files) > 10
                  => /\ log = <<>>
                     /\ req[t].results = <<>>
                     /\ pc[t] \in { "store", "done" }
                     /\ session[req[t].sid] = req[t].before
                     /\ pc[t] = "done"
                        => resp[t].results = <<>> /\ resp[t].error # None
               /\ (Len(files) = 10 /\ PassesSubmissionChecks(files) /\ pc[t] = "done")
                  => /\ resp[t].error.msg # "Maximum 10 files allowed per upload."
                     /\ \A k \in 1..10 :
                           /\ (k \in Preceding(files) \/ k = FirstFailing(files))
                              => Calls(log, "allowed_file", k) = 1
                           /\ k \in Preceding(files)
                              => Calls(log, "extract_text_from_image", k) = 1
                     /\ FirstFailing(files) = 0
                        => Len(resp[t].results) = Len(SelectSeq(files, NamedFile))

C6_Witness ==
    \E t \in Threads :
        /\ Finished(t, "POST /")
        /\ Len(req[t].files) = 11
        /\ \A k \in 1..11 : NamedFile(req[t].files[k]) /\ ~FailsValidation(req[t].files[k])
        /\ resp[t].error.msg = "Maximum 10 files allowed per upload."
        /\ resp[t].results = <<>>
        /\ req[t].before.has_results
        /\ session[req[t].sid] = req[t].before

\* C7: in a POST / the files are handled strictly in submission order, with
\* validation interleaved with OCR per item: the OCR call
\* (extract_text_from_image, and inside it the engine) is made at most once
\* per file, never for a file that is not a named file preceding the first
\* file failing validation, and, once the loop is over in a POST / that
\* passed the submission checks, extract_text_from_image has been called
\* exactly once for each of those files.
C7_OcrOncePerPrecedingFile ==
    \A t \in Threads :
        req[t].route = "POST /"
        => LET files == req[t].files
               log == req[t].log
               due == IF PassesSubmissionChecks(files) THEN Preceding(files) ELSE {}
           IN  /\ \A n \in 1..Len(log) : \A m \in 1..(n - 1) : log[m].k <= log[n].k
               /\ \A k \in 1..Len(files) :
                     /\ Calls(log, "extract_text_from_image", k) <= 1
                     /\ Calls(log, "image_to_string", k) <= 1
                     /\ k \notin due
                        => /\ Calls(log, "extract_text_from_image", k) = 0
                           /\ Calls(log, "image_to_string", k) = 0
                     /\ (k \in due /\ pc[t] \in { "store", "done" })
                        => Calls(log, "extract_text_from_image", k) = 1
                     /\ (k \in due /\ pc[t] \in { "store", "done" }
                           /\ files[k].image.decodable)
                        => Calls(log, "image_to_string", k) = 1

C7_Witness ==
    \E t \in Threads :
        /\ Finished(t, "POST /")
        /\ Len(req[t].files) = 3
        /\ FirstFailing(req[t].files) = 2
        /\ Calls(req[t].log, "extract_text_from_image", 1) = 1
        /\ Calls(req[t].log, "image_to_string", 1) = 1
        /\ Calls(req[t].log, "extract_text_from_image", 3) = 0
        /\ resp[t].error # None

\* C8: an upload whose bytes cannot be decoded as an image is reported with
\* the generic "ensure they are valid image files" error, and the cause text
\* is shown neither in the error nor in any result entry's text.
C8_DecodeErrorIsGeneric ==
    \A t \in Threads :
        ( /\ Finished(t, "POST /")
          /\ \E k \in 1..Len(req[t].files) :
                /\ ~req[t].files[k].image.decodable
                /\ Calls(req[t].log, "Image.open", k) = 1 )
        => /\ resp[t].error.msg
                = "Failed to process the images. Please ensure they are valid image files."
           /\ \A n \in 1..Len(resp[t].results) :
                 \A j \in 1..Len(resp[t].results[n].text) :
                    resp[t].results[n].text[j] # "cannot identify image file"

\* C9: the per-file size check rejects a file of an allowed extension whose
\* measured length is greater than 10,485,760 and accepts one of length
\* 10,485,760 or less: the former ends the batch with the size error and is
\* not sent to OCR, the latter is sent to OCR.
C9_SizeCeilingInclusive ==
    \A t \in Threads :
        (Finished(t, "POST /") /\ PassesSubmissionChecks(req[t].files))
        => \A k \in 1..Len(req[t].files) :
              LET f == req[t].files[k]
              IN  ( /\ NamedFile(f)
                    /\ NameIsAllowed(f.filename)
                    /\ \A m \in 1..(k - 1) : ~FailsValidation(req[t].files[m]) )
                  => IF f.size > 10485760
                     THEN /\ resp[t].error.msg = "File {filename} exceeds 10MB limit."
                          /\ resp[t].error.filename = f.filename
                          /\ Calls(req[t].log, "tell", k) = 1
                          /\ Calls(req[t].log, "extract_text_from_image", k) = 0
                     ELSE /\ Calls(req[t].log, "tell", k) = 1
                          /\ Calls(req[t].log, "extract_text_from_image", k) = 1

C9_Witness ==
    \E t \in Threads :
        /\ Finished(t, "POST /")
        /\ Len(req[t].files) = 2
        /\ req[t].files[1].size = 10485760
        /\ req[t].files[2].size = 10485761
        /\ NameIsAllowed(req[t].files[2].filename)
        /\ Calls(req[t].log, "extract_text_from_image", 1) = 1
        /\ Len(resp[t].results) = 1
        /\ resp[t].error.msg = "File {filename} exceeds 10MB limit."

\* C10: allowed_file accepts a filename if and only if it contains a '.'
\* and the lowercased part after its last '.' is one of png, jpg, jpeg, gif,
\* bmp, webp; letter case does not matter.
C10_AllowedFileIffAllowListed ==
    probe.checked => (probe.accepted <=> NameIsAllowed(probe.filename))

C10_Witness ==
    /\ probe.checked
    /\ probe.accepted
    /\ probe.filename = <<".", ".", "P", "n", "G">>

\* the files index() accepts: when the submission checks pass, the named
\* files before the first one failing validation, in upload order
AcceptedFiles(files) ==
    IF ~PassesSubmissionChecks(files) THEN <<>>
    ELSE IF FirstFailing(files) = 0 THEN SelectSeq(files, NamedFile)
    ELSE SelectSeq(SubSeq(files, 1, FirstFailing(files) - 1), NamedFile)

\* C11: every accepted file (named, validation passed) produces exactly one
\* result entry carrying its filename and measured size, the entries are in
\* upload order, and files with an empty filename produce no entry.
C11_OneEntryPerAcceptedFile ==
    \A t \in Threads :
        Finished(t, "POST /")
        => LET accepted == AcceptedFiles(req[t].files)
               out == resp[t].results
           IN  /\ Len(out) = Len(accepted)
               /\ \A k \in 1..Len(accepted) :
                     /\ out[k].filename = accepted[k].filename
                     /\ out[k].size = accepted[k].size
               /\ \A k \in 1..Len(out) : out[k].filename # <<>>

C11_Witness ==
    \E t \in Threads :
        /\ Finished(t, "POST /")
        /\ Len(req[t].files) = 3
        /\ ~NamedFile(req[t].files[2])
        /\ Len(resp[t].results) = 2
        /\ resp[t].results[2].filename = req[t].files[3].filename
        /\ resp[t].results[2].size = req[t].files[3].size

\* a sequence of strings written out as one string, last part first
RECURSIVE Written(_)
Written(parts) ==
    IF parts = <<>> THEN ""
    ELSE Written(SubSeq(parts, 1, Len(parts) - 1)) \o parts[Len(parts)]

\* the header of the entry with ordinal n, then its text and the closing rule
EntrySection(n, entry) ==
    Written(<<"=== File ", ToString(n), ": ", Written(entry.filename), " ===\n",
              "Characters: ", ToString(Len(Written(entry.text))), "\n",
              "Size: ", ToString(entry.size), " bytes\n",
              "==================================================\n\n",
              Written(entry.text),
              "\n\n==================================================\n\n">>)

\* C12: POST /download-all returns 404 when the session has no stored
\* batch; otherwise its body is the concatenation, in stored order, of one
\* section per stored entry: a header with the entry's 1-based ordinal, its
\* filename, a character count equal to the length of its text, and its
\* size, followed by the text.
C12_DownloadAllConcatenates ==
    \A t \in Threads :
        Finished(t, "POST /download-all")
        => LET stored == req[t].before
           IN  IF ~stored.has_results
               THEN resp[t].status = 404
               ELSE /\ resp[t].status = 200
                    /\ resp[t].body =
                          <<Written([n \in 1..Len(stored.results) |->
                                        EntrySection(n, stored.results[n])])>>

C12_Witness ==
    \E t \in Threads :
        /\ Finished(t, "POST /download-all")
        /\ Len(req[t].before.results) = 2
        /\ req[t].before.results[1].text # req[t].before.results[2].text
        /\ resp[t].status = 200

\* how many of the nine pixels around (x, y) are white, the pixels beyond
\* an edge counting as the edge pixel
WhiteAround(px, w, h, x, y, white) ==
    Cardinality({ d \in { <<dx, dy>> : dx \in { -1, 0, 1 }, dy \in { -1, 0, 1 } } :
        px[IF y + d[2] < 1 THEN 1 ELSE IF y + d[2] > h THEN h ELSE y + d[2]]
          [IF x + d[1] < 1 THEN 1 ELSE IF x + d[1] > w THEN w ELSE x + d[1]] = white })

\* out is the black/white bitmap whose pixels are white exactly where the
\* majority of the nine pixels around them in inp are white
IsMajorityOf(out, inp, white) ==
    /\ out.mode = "1" /\ out.w = inp.w /\ out.h = inp.h
    /\ \A y \in 1..inp.h : \A x \in 1..inp.w :
          out.px[y][x] = IF WhiteAround(inp.px, inp.w, inp.h, x, y, white) >= 5
                         THEN 255 ELSE 0

\* C13 as stated: preprocess_image is idempotent on already-binarized
\* input, feeding a pure black/white image through the pipeline a second
\* time yields the same bitmap as the first time.
C13_PreprocessIdempotent ==
    picture.passes = 2 => picture.second = picture.first

\* C13 as amended: on a pure black/white image the pipeline returns the
\* black/white bitmap of the same size given by the 3 x 3 median of the
\* input (a pixel is white iff at least 5 of the 9 pixels around it, edge
\* pixels repeated, are white), on the first pass and again on the second.
C13_PreprocessIsMedianOfInput ==
    /\ picture.passes >= 1 => IsMajorityOf(picture.first, picture.input, <<255, 255, 255>>)
    /\ picture.passes = 2 => IsMajorityOf(picture.second, picture.first, 255)

C13_Witness ==
    /\ picture.passes = 2
    /\ picture.second # picture.first
    /\ picture.input.w = 3 /\ picture.input.h = 3

\* C14: every result entry lets a consumer tell its outcome apart (ok,
\* empty, error): an entry reads "No text could be extracted from this
\* image." if and only if the OCR's trimmed text has zero length, and reads
\* "Error processing image: ..." if and only if recognition failed, so real
\* OCR text is never confused with a placeholder.
C14_EntriesTellOutcomeApart ==
    \A t \in Threads :
        Finished(t, "POST /")
        => LET accepted == AcceptedFiles(req[t].files)
               out == resp[t].results
           IN  \A k \in 1..Len(out) :
                  LET recognised == accepted[k].image.decodable /\ accepted[k].image.engine_ok
                  IN  /\ out[k].text = <<"No text could be extracted from this image.">>
                         <=> (recognised /\ AllBlank(accepted[k].image.raw))
                      /\ out[k].text[1] = "Error processing image: "
                         <=> ~recognised

\* C15: the per-file checks run in a fixed order and the first failure
\* wins: a file whose extension is not allowed is reported with the
\* invalid-file-type error and its size is not measured, also when its size
\* exceeds the ceiling (never the size error); the size is measured, once,
\* only for a file whose extension is allowed.
C15_ExtensionCheckedBeforeSize ==
    \A t \in Threads :
        ( /\ Finished(t, "POST /")
          /\ PassesSubmissionChecks(req[t].files)
          /\ FirstFailing(req[t].files) # 0 )
        => LET k == FirstFailing(req[t].files)
               f == req[t].files[k]
           IN  IF ~NameIsAllowed(f.filename)
               THEN /\ resp[t].error.msg = "Invalid file type for {filename}."
                    /\ resp[t].error.filename = f.filename
                    /\ Calls(req[t].log, "allowed_file", k) = 1
                    /\ Calls(req[t].log, "tell", k) = 0
               ELSE /\ resp[t].error.msg = "File {filename} exceeds 10MB limit."
                    /\ Calls(req[t].log, "allowed_file", k) = 1
                    /\ Calls(req[t].log, "tell", k) = 1
                    /\ \E n \in 1..Len(req[t].log), m \in 1..Len(req[t].log) :
                          /\ n < m
                          /\ req[t].log[n] = [op |-> "allowed_file", k |-> k]
                          /\ req[t].log[m] = [op |-> "tell", k |-> k]

C15_Witness ==
    \E t \in Threads :
        /\ Finished(t, "POST /")
        /\ Len(req[t].files) = 2
        /\ FirstFailing(req[t].files) = 2
        /\ ~NameIsAllowed(req[t].files[2].filename)
        /\ req[t].files[2].size > 10485760
        /\ resp[t].error.msg = "Invalid file type for {filename}."
        /\ Calls(req[t].log, "tell", 1) = 1
        /\ Calls(req[t].log, "tell", 2) = 0

\* C16: every POST / ends with a batch-level error or a non-empty result
\* list, never neither: when the loop is left in a POST / that passed the
\* submission checks, a named file has set the error or appended an entry,
\* so the fallback error "No text could be extracted from any of the
\* uploaded images." is never produced.
C16_FallbackErrorNeverProduced ==
    \A t \in Threads :
        /\ req[t].error.msg # "No text could be extracted from any of the uploaded images."
        /\ resp[t].error.msg # "No text could be extracted from any of the uploaded images."
        /\ (req[t].route = "POST /" /\ pc[t] \in { "after_loop", "store", "done" })
           => (req[t].error.msg # "None" \/ req[t].results # <<>>)
        /\ Finished(t, "POST /")
           => (resp[t].error.msg # "None" \/ resp[t].results # <<>>)

C16_Witness ==
    \E t \in Threads :
        /\ Finished(t, "POST /")
        /\ Len(req[t].files) = 2
        /\ ~NamedFile(req[t].files[1])
        /\ resp[t].error.msg = "None"
        /\ Len(resp[t].results) = 1
        /\ resp[t].results[1].text = <<"No text could be extracted from this image.">>

\* C17: the batch stored for a session is absent or a non-empty list of at
\* most 10 entries, and it is never cleared once set: a step changes it
\* only when a POST / of that session with a non-empty result list stores
\* that list, so GET /, POST /download-single, POST /download-all and a
\* POST / with an empty result list leave it unchanged.
C17_StoredBatchOnlyReplaced ==
    [][ \A s \in DOMAIN session :
           /\ session'[s].has_results <=> session'[s].results # <<>>
           /\ Len(session'[s].results) <= 10
           /\ session[s].has_results => session'[s].has_results
           /\ session'[s] # session[s]
              => \E t \in Threads :
                    /\ req[t].route = "POST /" /\ req[t].sid = s
                    /\ pc[t] = "store" /\ pc'[t] = "done"
                    /\ req[t].results # <<>>
                    /\ session'[s].results = req[t].results ]_vars

C17_Witness ==
    \E t \in Threads :
        /\ Finished(t, "POST /")
        /\ resp[t].error.msg = "Please select at least one file to upload."
        /\ resp[t].results = <<>>
        /\ Len(req[t].before.results) = 10
        /\ session[req[t].sid] = req[t].before

\* the result list of a request is complete: one entry per accepted file
IsCompleteResultList(results, files) ==
    /\ Len(results) = Len(AcceptedFiles(files))
    /\ \A k \in 1..Len(results) :
          /\ results[k].filename = AcceptedFiles(files)[k].filename
          /\ OwnOutcome(AcceptedFiles(files)[k], results[k].text)

\* C18: under any interleaving of requests, sessions do not interfere.  A
\* step changes the batch stored for a session only when a POST / of that
\* same session stores its own complete result list; a download answers
\* from the batch of its own session alone; and when two POST / of one
\* session have both finished, the stored batch is the complete result list
\* of one of them, never a mixture.
C18_SessionsDoNotInterfere ==
    [][ /\ \A s \in DOMAIN session :
              session'[s] # session[s]
              => \E t \in Threads :
                    /\ req[t].route = "POST /" /\ req[t].sid = s
                    /\ pc[t] = "store" /\ pc'[t] = "done"
                    /\ session'[s].results = req[t].results
                    /\ IsCompleteResultList(req[t].results, req[t].files)
        /\ \A t \in Threads :
              ( /\ pc[t] = "idle" /\ pc'[t] = "done"
                /\ req'[t].route \in { "POST /download-single", "POST /download-all" } )
              => LET own == session[req'[t].sid]
                 IN  /\ ~own.has_results => resp'[t].status = 404
                     /\ resp'[t].status = 200
                        => IF req'[t].route = "POST /download-all"
                           THEN resp'[t].body =
                                   <<Written([n \in 1..Len(own.results) |->
                                                 EntrySection(n, own.results[n])])>>
                           ELSE \E n \in 1..Len(own.results) :
                                   resp'[t].body = own.results[n].text
        /\ \A t \in Threads : \A u \in Threads :
              ( /\ t # u
                /\ pc'[t] = "done" /\ req'[t].route = "POST /"
                /\ pc'[u] = "done" /\ req'[u].route = "POST /"
                /\ req'[t].sid = req'[u].sid
                /\ req'[t].results # <<>> /\ req'[u].results # <<>> )
              => session'[req'[t].sid].results \in { req'[t].results, req'[u].results }
      ]_vars

C18_Witness ==
    \E t \in Threads : \E u \in Threads : \E other \in DOMAIN session :
        /\ t # u
        /\ req[t].route = "POST /" /\ req[u].route = "POST /"
        /\ req[t].sid = req[u].sid /\ other # req[t].sid
        /\ req[t].before = req[u].before
        /\ pc[t] = "done" /\ pc[u] = "done"
        /\ req[t].results # <<>> /\ req[u].results # <<>>
        /\ req[t].results # req[u].results
        /\ session[req[t].sid].results = req[u].results
        /\ session[other].has_results
        /\ session[other].results # req[t].results
        /\ session[other].results # req[u].results

====
